---------------------------- MODULE Spec2Model ----------------------------
(***************************************************************************)
(* Model of plugins/module_utils/robot.py: the error formatter, the two    *)
(* request executors (fetch_url_json, plugin_open_url_json) and the        *)
(* retry-until-done poller (fetch_url_json_with_retries).                  *)
(*                                                                         *)
(* Python values are tagged records: None, str, int, list, dict.  Time is  *)
(* counted in whole seconds.  Messages are sequences of text pieces, the   *)
(* pieces a str.format call joins.                                         *)
(***************************************************************************)
EXTENDS Integers, Sequences, FiniteSets, TLC

---------------------------------------------------------------------------
(* Python values *)

None == [t |-> "none"]
PStr(s) == [t |-> "str", v |-> s]
PInt(n) == [t |-> "int", v |-> n]
PList(q) == [t |-> "list", v |-> q]
PDict(f) == [t |-> "dict", v |-> f]

\* Python truthiness of a decoded value (used by error.get(...) tests).
Truthy(x) ==
    CASE x.t = "none" -> FALSE
      [] x.t = "str" -> x.v # ""
      [] x.t = "int" -> x.v # 0
      [] x.t = "list" -> Len(x.v) > 0
      [] x.t = "dict" -> DOMAIN x.v # {}

\* dict.get(key): the value, or None when the key is absent.
DictGet(d, key) == IF key \in DOMAIN d.v THEN d.v[key] ELSE None

---------------------------------------------------------------------------
(* Text rendering *)

Digit(d) ==
    CASE d = 0 -> "0" [] d = 1 -> "1" [] d = 2 -> "2" [] d = 3 -> "3"
      [] d = 4 -> "4" [] d = 5 -> "5" [] d = 6 -> "6" [] d = 7 -> "7"
      [] d = 8 -> "8" [] d = 9 -> "9"

RECURSIVE NatText(_)
NatText(n) == IF n < 10 THEN <<Digit(n)>> ELSE NatText(n \div 10) \o <<Digit(n % 10)>>

\* str(int): decimal digits, with a leading minus sign for negatives.
IntText(n) == IF n < 0 THEN <<"-">> \o NatText(-n) ELSE NatText(n)

\* to_native(obj): a str is kept, anything else becomes its str() text.
to_native(obj) ==
    CASE obj.t = "none" -> <<"None">>
      [] obj.t = "str" -> <<obj.v>>
      [] obj.t = "int" -> IntText(obj.v)
      [] obj.t = "dict" -> <<"{...}">>
      [] OTHER -> <<"?">>

RECURSIVE format_list_text(_, _)
RECURSIVE format_items_text(_)
\* The text '{0}'.format(_format_list(obj)) produces: _format_list turns every
\* non-list leaf into a str (to_native) and keeps the list nesting; format
\* shows a list as [a, b] with each str leaf in quotes.
format_list_text(obj, nested) ==
    IF obj.t # "list"
    THEN IF nested THEN <<"'">> \o to_native(obj) \o <<"'">> ELSE to_native(obj)
    ELSE <<"[">> \o format_items_text(obj.v) \o <<"]">>
format_items_text(q) ==
    IF Len(q) = 0 THEN <<>>
    ELSE IF Len(q) = 1 THEN format_list_text(Head(q), TRUE)
    ELSE format_list_text(Head(q), TRUE) \o <<", ">> \o format_items_text(Tail(q))

\* '{0}'.format(x) for a scalar field of the error object.
FieldText(x) == IF x.t = "list" THEN format_list_text(x, FALSE) ELSE to_native(x)

---------------------------------------------------------------------------
(* Form encoding helper *)

\* Without the case of a single value: every list gets numbered keys.
get_x_www_form_urlenconded_dict_from_list_AlwaysNumbered(key, values) ==
    [i \in 1..Len(values) |-> << <<key, "[">> \o IntText(i - 1) \o <<"]">>, values[i] >>]

\* get_x_www_form_urlenconded_dict_from_list(key, values): the dict, as its
\* (key text, value) entries in insertion order.
get_x_www_form_urlenconded_dict_from_list(key, values) ==
    IF Len(values) = 1
    THEN << << <<key, "[]">>, values[1] >> >>
    ELSE [i \in 1..Len(values) |-> << <<key, "[">> \o IntText(i - 1) \o <<"]">>, values[i] >>]

---------------------------------------------------------------------------
(* Error formatter *)

Formatted(m) == [ok |-> TRUE, msg |-> m, exc |-> ""]
Raised(e) == [ok |-> FALSE, msg |-> <<>>, exc |-> e]

\* The list clauses gated like the number clauses, by "is not None".
format_error_msg_ListsByPresence(error) ==
    IF error.t # "dict" THEN Raised("TypeError")
    ELSE IF ~({"status", "code", "message"} \subseteq DOMAIN error.v) THEN Raised("KeyError")
    ELSE LET head == <<"Request failed: ">> \o FieldText(error.v["status"]) \o <<" ">>
                     \o FieldText(error.v["code"]) \o <<" (">>
                     \o FieldText(error.v["message"]) \o <<")">>
             missing == IF DictGet(error, "missing") # None
                        THEN <<". Missing input parameters: ">>
                             \o format_list_text(error.v["missing"], FALSE)
                        ELSE <<>>
             invalid == IF DictGet(error, "invalid") # None
                        THEN <<". Invalid input parameters: ">>
                             \o format_list_text(error.v["invalid"], FALSE)
                        ELSE <<>>
             maxreq  == IF DictGet(error, "max_request") # None
                        THEN <<". Maximum allowed requests: ">>
                             \o FieldText(error.v["max_request"])
                        ELSE <<>>
             intv    == IF DictGet(error, "interval") # None
                        THEN <<". Time interval in seconds: ">>
                             \o FieldText(error.v["interval"])
                        ELSE <<>>
         IN  Formatted(head \o missing \o invalid \o maxreq \o intv)

\* The number clauses gated like the list clauses, by truthiness.
format_error_msg_NumbersByTruth(error) ==
    IF error.t # "dict" THEN Raised("TypeError")
    ELSE IF ~({"status", "code", "message"} \subseteq DOMAIN error.v) THEN Raised("KeyError")
    ELSE LET head == <<"Request failed: ">> \o FieldText(error.v["status"]) \o <<" ">>
                     \o FieldText(error.v["code"]) \o <<" (">>
                     \o FieldText(error.v["message"]) \o <<")">>
             missing == IF Truthy(DictGet(error, "missing"))
                        THEN <<". Missing input parameters: ">>
                             \o format_list_text(error.v["missing"], FALSE)
                        ELSE <<>>
             invalid == IF Truthy(DictGet(error, "invalid"))
                        THEN <<". Invalid input parameters: ">>
                             \o format_list_text(error.v["invalid"], FALSE)
                        ELSE <<>>
             maxreq  == IF Truthy(DictGet(error, "max_request"))
                        THEN <<". Maximum allowed requests: ">>
                             \o FieldText(error.v["max_request"])
                        ELSE <<>>
             intv    == IF Truthy(DictGet(error, "interval"))
                        THEN <<". Time interval in seconds: ">>
                             \o FieldText(error.v["interval"])
                        ELSE <<>>
         IN  Formatted(head \o missing \o invalid \o maxreq \o intv)

\* format_error_msg(error): the message, or the exception the lookups raise
\* (TypeError when error is no dict, KeyError when a mandatory key is absent).
format_error_msg(error) ==
    IF error.t # "dict" THEN Raised("TypeError")
    ELSE IF ~({"status", "code", "message"} \subseteq DOMAIN error.v) THEN Raised("KeyError")
    ELSE LET head == <<"Request failed: ">> \o FieldText(error.v["status"]) \o <<" ">>
                     \o FieldText(error.v["code"]) \o <<" (">>
                     \o FieldText(error.v["message"]) \o <<")">>
             missing == IF Truthy(DictGet(error, "missing"))
                        THEN <<". Missing input parameters: ">>
                             \o format_list_text(error.v["missing"], FALSE)
                        ELSE <<>>
             invalid == IF Truthy(DictGet(error, "invalid"))
                        THEN <<". Invalid input parameters: ">>
                             \o format_list_text(error.v["invalid"], FALSE)
                        ELSE <<>>
             maxreq  == IF DictGet(error, "max_request") # None
                        THEN <<". Maximum allowed requests: ">>
                             \o FieldText(error.v["max_request"])
                        ELSE <<>>
             intv    == IF DictGet(error, "interval") # None
                        THEN <<". Time interval in seconds: ">>
                             \o FieldText(error.v["interval"])
                        ELSE <<>>
         IN  Formatted(head \o missing \o invalid \o maxreq \o intv)

---------------------------------------------------------------------------
(* JSON decoding *)

Decoded(x) == [ok |-> TRUE, val |-> x]
ValueError == [ok |-> FALSE, val |-> None]

ErrRateLimit ==
    PDict([status |-> PInt(403), code |-> PStr("RATE_LIMIT"), message |-> PStr("rate limit"),
           max_request |-> PInt(0), interval |-> PInt(0)])
ErrNotFound ==
    PDict([status |-> PInt(404), code |-> PStr("NOT_FOUND"), message |-> PStr("not found")])
ErrInvalidInput ==
    PDict([status |-> PInt(400), code |-> PStr("INVALID_INPUT"), message |-> PStr("invalid input"),
           missing |-> PList(<<PStr("a"), PStr("b")>>), invalid |-> PList(<<>>)])
ErrNoCode ==
    PDict([status |-> PInt(500), message |-> PStr("internal")])
ErrNoMessage ==
    PDict([status |-> PInt(500), code |-> PStr("INTERNAL")])

\* json.loads(content.decode('utf-8')) / module.from_json(content.decode('utf8'))
\* on the response bodies of the model; any other text is not JSON (or not
\* UTF-8) and raises ValueError.  A body's error object is written by its
\* name (RATE_LIMIT stands for the JSON text of ErrRateLimit).
json_loads(content) ==
    CASE content = "{\"server\": 1}" -> Decoded(PDict([server |-> PInt(1)]))
      [] content = "{\"error\": RATE_LIMIT}" -> Decoded(PDict([error |-> ErrRateLimit]))
      [] content = "{\"error\": NOT_FOUND}" -> Decoded(PDict([error |-> ErrNotFound]))
      [] content = "{\"error\": INVALID_INPUT}" -> Decoded(PDict([error |-> ErrInvalidInput]))
      [] content = "{\"error\": NO_CODE}" -> Decoded(PDict([error |-> ErrNoCode]))
      [] content = "{\"error\": NO_MESSAGE}" -> Decoded(PDict([error |-> ErrNoMessage]))
      [] content = "{\"error\": \"boom\"}" -> Decoded(PDict([error |-> PStr("boom")]))
      [] content = "5" -> Decoded(PInt(5))
      [] content = "\"an error\"" -> Decoded(PStr("an error"))
      [] content = "\"ok\"" -> Decoded(PStr("ok"))
      [] content = "[\"error\"]" -> Decoded(PList(<<PStr("error")>>))
      [] content = "[]" -> Decoded(PList(<<>>))
      [] content = "null" -> Decoded(None)
      [] OTHER -> ValueError

\* The str values of the model that have 'error' as a substring.
StrHasError(s) == s \in {"error", "an error"}

\* 'error' in result: a key of a dict, an element of a list, a substring of a
\* str; TypeError for a value that is no container.
InError(result) ==
    CASE result.t = "dict" -> [ok |-> TRUE, val |-> "error" \in DOMAIN result.v]
      [] result.t = "list" -> [ok |-> TRUE, val |-> \E i \in 1..Len(result.v) : result.v[i] = PStr("error")]
      [] result.t = "str" -> [ok |-> TRUE, val |-> StrHasError(result.v)]
      [] OTHER -> [ok |-> FALSE, val |-> FALSE]

\* code in accept_errors, for accept_errors a collection of str.
CodeAccepted(code, accept_errors) == code.t = "str" /\ code.v \in accept_errors

---------------------------------------------------------------------------
(* Outcomes of one executor call *)

Return(result, error) ==
    [kind |-> "return", result |-> result, error |-> error, msg |-> <<>>, payload |-> None]
\* module.fail_json(msg=..., error=...) / raise PluginException(msg)
Fail(msg, payload) ==
    [kind |-> "fail", result |-> None, error |-> None, msg |-> msg, payload |-> payload]
\* An exception the executor neither catches nor raises on purpose.
Uncaught(exc) ==
    [kind |-> "raise", result |-> None, error |-> None, msg |-> <<exc>>, payload |-> None]

\* obj[key] for a str key: the value of a dict key, KeyError when the dict
\* lacks it, TypeError when obj is no dict.
Subscript(obj, key) ==
    IF obj.t # "dict" THEN [ok |-> FALSE, val |-> None, exc |-> "TypeError"]
    ELSE IF key \notin DOMAIN obj.v THEN [ok |-> FALSE, val |-> None, exc |-> "KeyError"]
    ELSE [ok |-> TRUE, val |-> obj.v[key], exc |-> ""]

---------------------------------------------------------------------------
(* Transport: what open_url / fetch_url do with one request *)

\* how = "normal": a response object with a status and a body;
\* how = "httperror": an HTTPError carrying a status and a body (readable or not);
\* how = "hard": a failure with no HTTP response (cause: the exception text).
Normal(status, body) ==
    [how |-> "normal", status |-> status, body |-> body, readable |-> TRUE, cause |-> ""]
ErrorResponse(status, body, readable) ==
    [how |-> "httperror", status |-> status, body |-> body, readable |-> readable, cause |-> ""]
Hard(cause) ==
    [how |-> "hard", status |-> -1, body |-> "", readable |-> FALSE, cause |-> cause]

\* fetch_url(module, url, ...): never raises; it hands back (resp, info).  An
\* HTTPError comes back as a closed resp with its body in info['body'] ('' when
\* it cannot be read); a failure without a response comes back as resp = None
\* and info = {status: -1, msg: cause}, with no 'body' key.
fetch_url(tr) ==
    CASE tr.how = "normal" ->
            [resp |-> [isNone |-> FALSE, closed |-> FALSE, data |-> tr.body],
             info |-> [status |-> tr.status, msg |-> "OK"]]
      [] tr.how = "httperror" ->
            [resp |-> [isNone |-> FALSE, closed |-> TRUE, data |-> ""],
             info |-> [status |-> tr.status, msg |-> "HTTP Error",
                       body |-> IF tr.readable THEN tr.body ELSE ""]]
      [] tr.how = "hard" ->
            [resp |-> [isNone |-> TRUE, closed |-> TRUE, data |-> ""],
             info |-> [status |-> tr.status, msg |-> tr.cause]]

---------------------------------------------------------------------------
(* Request executors *)

\* The decoding failure reported with the text of the empty response.
plugin_decode_OtherMessage(url, content, accept_errors) ==
    LET dec == json_loads(content)
        result == dec.val
        has == InError(result)
        err == Subscript(result, "error")
        code == Subscript(err.val, "code")
        fmt == format_error_msg(err.val)
    IN  IF ~dec.ok THEN Fail(<<"Cannot retrieve content from ", url>>, None)
        ELSE IF ~has.ok THEN Uncaught("TypeError")
        ELSE IF ~has.val THEN Return(result, None)
        ELSE IF ~err.ok THEN Uncaught(err.exc)
        ELSE IF accept_errors # {} /\ ~code.ok THEN Uncaught(code.exc)
        ELSE IF accept_errors # {} /\ CodeAccepted(code.val, accept_errors)
             THEN Return(result, code.val)
        ELSE IF ~fmt.ok THEN Uncaught(fmt.exc)
        ELSE Fail(fmt.msg, None)

\* Lines 109-118: decode the body and classify it (inventory plugin flavour).
plugin_decode(url, content, accept_errors) ==
    LET dec == json_loads(content)
        result == dec.val
        has == InError(result)
        err == Subscript(result, "error")
        code == Subscript(err.val, "code")
        fmt == format_error_msg(err.val)
    IN  IF ~dec.ok THEN Fail(<<"Cannot decode content retrieved from ", url>>, None)
        ELSE IF ~has.ok THEN Uncaught("TypeError")
        ELSE IF ~has.val THEN Return(result, None)
        ELSE IF ~err.ok THEN Uncaught(err.exc)
        ELSE IF accept_errors # {} /\ ~code.ok THEN Uncaught(code.exc)
        ELSE IF accept_errors # {} /\ CodeAccepted(code.val, accept_errors)
             THEN Return(result, code.val)
        ELSE IF ~fmt.ok THEN Uncaught(fmt.exc)
        ELSE Fail(fmt.msg, None)

\* The status left out of the empty-body test.
plugin_open_url_json_AnyStatus(url, tr, accept_errors, allow_empty_result, allowed_empty_result_status_codes) ==
    IF tr.how = "hard"
    THEN Fail(<<"Failed request to Hetzner Robot server endpoint ", url, ": ", tr.cause>>, None)
    ELSE LET status == tr.status
             content == IF tr.how = "normal" \/ tr.readable THEN tr.body ELSE ""
         IN  IF content = ""
             THEN IF allow_empty_result
                  THEN Return(None, None)
                  ELSE Fail(<<"Cannot retrieve content from ", url, ", HTTP status code ">>
                            \o IntText(status), None)
             ELSE plugin_decode(url, content, accept_errors)

\* No except HTTPError clause: an HTTPError is handled like any other exception.
plugin_open_url_json_NoHTTPError(url, tr, accept_errors, allow_empty_result, allowed_empty_result_status_codes) ==
    IF tr.how # "normal"
    THEN Fail(<<"Failed request to Hetzner Robot server endpoint ", url, ": ", tr.cause>>, None)
    ELSE LET status == tr.status
             content == tr.body
         IN  IF content = ""
             THEN IF allow_empty_result /\ status \in allowed_empty_result_status_codes
                  THEN Return(None, None)
                  ELSE Fail(<<"Cannot retrieve content from ", url, ", HTTP status code ">>
                            \o IntText(status), None)
             ELSE plugin_decode(url, content, accept_errors)

\* A status of 400 or more treated as a failed request, whatever the body.
plugin_open_url_json_StatusMatters(url, tr, accept_errors, allow_empty_result, allowed_empty_result_status_codes) ==
    IF tr.how = "hard" \/ tr.status >= 400
    THEN Fail(<<"Failed request to Hetzner Robot server endpoint ", url, ": ", tr.cause>>, None)
    ELSE LET status == tr.status
             content == IF tr.how = "normal" \/ tr.readable THEN tr.body ELSE ""
         IN  IF content = ""
             THEN IF allow_empty_result /\ status \in allowed_empty_result_status_codes
                  THEN Return(None, None)
                  ELSE Fail(<<"Cannot retrieve content from ", url, ", HTTP status code ">>
                            \o IntText(status), None)
             ELSE plugin_decode(url, content, accept_errors)

\* plugin_open_url_json(plugin, url, ...) given what open_url did.
plugin_open_url_json(url, tr, accept_errors, allow_empty_result, allowed_empty_result_status_codes) ==
    IF tr.how = "hard"
    THEN Fail(<<"Failed request to Hetzner Robot server endpoint ", url, ": ", tr.cause>>, None)
    ELSE LET status == tr.status
             content == IF tr.how = "normal" \/ tr.readable THEN tr.body ELSE ""
         IN  IF content = ""
             THEN IF allow_empty_result /\ status \in allowed_empty_result_status_codes
                  THEN Return(None, None)
                  ELSE Fail(<<"Cannot retrieve content from ", url, ", HTTP status code ">>
                            \o IntText(status), None)
             ELSE plugin_decode(url, content, accept_errors)

\* The membership test on the error code left out: any error is accepted as
\* soon as accept_errors is given.
module_decode_AnyCode(url, content, accept_errors) ==
    LET dec == json_loads(content)
        result == dec.val
        has == InError(result)
        err == Subscript(result, "error")
        code == Subscript(err.val, "code")
        fmt == format_error_msg(err.val)
    IN  IF ~dec.ok THEN Fail(<<"Cannot decode content retrieved from ", url>>, None)
        ELSE IF ~has.ok THEN Uncaught("TypeError")
        ELSE IF ~has.val THEN Return(result, None)
        ELSE IF ~err.ok THEN Uncaught(err.exc)
        ELSE IF accept_errors # {} /\ ~code.ok THEN Uncaught(code.exc)
        ELSE IF accept_errors # {} THEN Return(result, code.val)
        ELSE IF ~fmt.ok THEN Uncaught(fmt.exc)
        ELSE Fail(fmt.msg, err.val)

\* Lines 145-154: decode the body and classify it (module flavour).
module_decode(url, content, accept_errors) ==
    LET dec == json_loads(content)
        result == dec.val
        has == InError(result)
        err == Subscript(result, "error")
        code == Subscript(err.val, "code")
        fmt == format_error_msg(err.val)
    IN  IF ~dec.ok THEN Fail(<<"Cannot decode content retrieved from ", url>>, None)
        ELSE IF ~has.ok THEN Uncaught("TypeError")
        ELSE IF ~has.val THEN Return(result, None)
        ELSE IF ~err.ok THEN Uncaught(err.exc)
        ELSE IF accept_errors # {} /\ ~code.ok THEN Uncaught(code.exc)
        ELSE IF accept_errors # {} /\ CodeAccepted(code.val, accept_errors)
             THEN Return(result, code.val)
        ELSE IF ~fmt.ok THEN Uncaught(fmt.exc)
        ELSE Fail(fmt.msg, err.val)

\* Lines 131-138: the body, read from resp or, when resp is None (AttributeError)
\* or closed (TypeError), popped from info; None when info has no 'body'.
read_content(got) ==
    IF got.resp.isNone \/ got.resp.closed
    THEN IF "body" \in DOMAIN got.info THEN PStr(got.info["body"]) ELSE None
    ELSE PStr(got.resp.data)

\* fetch_url_json(module, url, ...) given what the transport did.
fetch_url_json(url, tr, accept_errors, allow_empty_result, allowed_empty_result_status_codes) ==
    LET got == fetch_url(tr)
        content == read_content(got)
        status == got.info["status"]
    IN  IF ~Truthy(content)
        THEN IF allow_empty_result /\ status \in allowed_empty_result_status_codes
             THEN Return(None, None)
             ELSE Fail(<<"Cannot retrieve content from ", url, ", HTTP status code ">>
                       \o IntText(status), None)
        ELSE module_decode(url, content.v, accept_errors)

---------------------------------------------------------------------------
(* Bounds and input sets *)

MaxDelay == 2
MaxTimeout == 3
MaxLatency == 2

Min(a, b) == IF a < b THEN a ELSE b
Max(a, b) == IF a > b THEN a ELSE b

\* (check_done_delay, check_done_timeout) of a call: every small pair, and the
\* pair of the documented scenario (delay 10, timeout 25).
Timings ==
    ((1..MaxDelay) \X (-1..MaxTimeout)) \cup {<<10, 25>>}

\* time.time() when the call starts.
Epochs == {7}

Urls == {"https://robot-ws.your-server.de/server"}

AcceptErrors == {{}, {"RATE_LIMIT"}, {"RATE_LIMIT", "NOT_FOUND"}}

\* allowed_empty_result_status_codes: the default (200, 204), and two others.
AllowedCodes == {{200, 204}, {204}, {-1, 200}}

Kwargs ==
    [accept_errors : AcceptErrors, allow_empty_result : BOOLEAN,
     allowed_empty_result_status_codes : AllowedCodes]

Statuses == {200, 204, 404, 500}

Bodies ==
    {"", "<html>", "{\"server\": 1}", "{\"error\": RATE_LIMIT}", "{\"error\": NOT_FOUND}",
     "{\"error\": INVALID_INPUT}", "{\"error\": NO_CODE}", "{\"error\": NO_MESSAGE}",
     "{\"error\": \"boom\"}",
     "5", "\"an error\"", "\"ok\"", "[\"error\"]", "[]", "null"}

Causes == {"Connection refused", "timed out"}

MaxValues == 3

FormKeys == {"ip", "server_ip"}
FormValues == {"1.2.3.4", "5.6.7.8"}

\* The lists get_x_www_form_urlenconded_dict_from_list is called with.
ValueLists == UNION {[1..n -> FormValues] : n \in 0..MaxValues}

\* A field of an error object that is not there.
Absent == [t |-> "absent"]

\* The dict of the fields of f that are there.
Present(f) == PDict([k \in {k \in DOMAIN f : f[k] # Absent} |-> f[k]])

MissingValues ==
    {Absent, None, PList(<<>>), PList(<<PStr("a"), PStr("b")>>),
     PList(<<PList(<<PStr("a")>>), PInt(1)>>)}
InvalidValues == {Absent, PList(<<>>), PList(<<PStr("x")>>)}
MaxRequestValues == {Absent, None, PInt(0), PInt(5)}
IntervalValues == {Absent, PInt(0), PInt(60)}

\* The error objects format_error_msg is called with: status, code and
\* message, and every choice of the optional fields.
ErrorObjects ==
    {Present([status |-> PInt(403), code |-> PStr("RATE_LIMIT"), message |-> PStr("rate limit"),
              missing |-> m, invalid |-> i, max_request |-> r, interval |-> t]) :
        m \in MissingValues, i \in InvalidValues, r \in MaxRequestValues, t \in IntervalValues}

\* Everything the transport can do with one request.
Responses ==
    {Normal(st, b) : st \in Statuses, b \in Bodies}
    \cup {ErrorResponse(st, b, TRUE) : st \in {404, 500}, b \in Bodies}
    \cup {ErrorResponse(st, "", FALSE) : st \in {404, 500}}
    \cup {Hard(c) : c \in Causes}

\* The responses the polled resource gives: one of each class of outcome.
PollResponses ==
    {Normal(200, "{\"server\": 1}"), Normal(200, "{\"error\": RATE_LIMIT}"),
     Normal(204, ""), Normal(200, "<html>"), Normal(200, "5"),
     ErrorResponse(404, "{\"error\": NOT_FOUND}", TRUE), ErrorResponse(500, "", FALSE),
     Hard("timed out")}

---------------------------------------------------------------------------
(* Retry-until-done poller *)

VARIABLES
    pc,                  \* position of the caller / of the poller
    now,                 \* time.time()
    url, kwargs,         \* arguments handed on to the executor
    check_done_delay, check_done_timeout, skip_first,
    start_time, elapsed, left_time, result, error,
    outcome,             \* how the call ended: return, fail, raise or timeout
    sent, fn, last,      \* latest executor call: transport response, function, outcome
    trace,               \* requests, sleeps and check_done calls, in order
    util                 \* latest call of a helper: function, argument, value

vars ==
    <<pc, now, url, kwargs, check_done_delay, check_done_timeout, skip_first,
      start_time, elapsed, left_time, result, error, outcome, sent, fn, last, trace,
      util>>

NoOutcome == [kind |-> "none", result |-> None, error |-> None, msg |-> <<>>, payload |-> None]

\* The exception built with its two arguments swapped.
CheckDoneTimeoutException_Swapped(r, e) ==
    [kind |-> "timeout", result |-> e, error |-> r, msg |-> <<>>, payload |-> None]

\* CheckDoneTimeoutException(result, error)
CheckDoneTimeoutException(r, e) ==
    [kind |-> "timeout", result |-> r, error |-> e, msg |-> <<>>, payload |-> None]

\* Entries of the trace.  at: seconds since start_time; dur: seconds taken;
\* ok: the request returned / check_done's verdict.
Event(ev, at, dur, ok) == [ev |-> ev, at |-> at, dur |-> dur, ok |-> ok]

\* The sleep without the clamp to the time that is left.
SleepTime_NoClamp(delay, left) == Max(delay, 0)

\* The sleep without the lower bound 0.
SleepTime_NoFloor(delay, left) == Min(delay, left)

\* max(min(check_done_delay, left_time), 0)
SleepTime(delay, left) == Max(Min(delay, left), 0)

\* The timeout test with <= in place of <.
TimedOut_Inclusive(left, delay) == left <= delay

\* The timeout test that gives up only when no time at all is missing.
TimedOut_Never(left, delay) == left < delay /\ left > delay

\* left_time < check_done_delay
TimedOut(left, delay) == left < delay

Init ==
    /\ pc = "idle"
    /\ now \in Epochs
    /\ url \in Urls
    /\ kwargs \in Kwargs
    /\ \E tm \in Timings : check_done_delay = tm[1] /\ check_done_timeout = tm[2]
    /\ skip_first \in BOOLEAN
    /\ start_time = 0 /\ elapsed = 0 /\ left_time = 0
    /\ result = None /\ error = None
    /\ outcome = NoOutcome
    /\ sent = Hard("") /\ fn = "" /\ last = NoOutcome
    /\ trace = <<>>
    /\ util = [fn |-> "", arg |-> None, out |-> None]

config == <<url, kwargs, check_done_delay, check_done_timeout, skip_first>>

\* A failed request retried like an unsatisfied check_done.
Request_RetryOnFailure(tr, lat, next) ==
    LET out == fetch_url_json(url, tr, kwargs.accept_errors, kwargs.allow_empty_result,
                              kwargs.allowed_empty_result_status_codes)
    IN  /\ now' = now + lat
        /\ sent' = tr /\ fn' = "fetch_url_json" /\ last' = out
        /\ trace' = Append(trace, Event("request", now - start_time, lat, out.kind = "return"))
        /\ IF out.kind = "return"
           THEN /\ result' = out.result /\ error' = out.error
                /\ pc' = next /\ outcome' = outcome
           ELSE /\ pc' = "wait" /\ outcome' = outcome
                /\ UNCHANGED <<result, error>>

\* One call of fetch_url_json inside the poller: the transport answers tr after
\* lat seconds; a failure ends the poller, a return binds result and error.
Request(tr, lat, next) ==
    LET out == fetch_url_json(url, tr, kwargs.accept_errors, kwargs.allow_empty_result,
                              kwargs.allowed_empty_result_status_codes)
    IN  /\ now' = now + lat
        /\ sent' = tr /\ fn' = "fetch_url_json" /\ last' = out
        /\ trace' = Append(trace, Event("request", now - start_time, lat, out.kind = "return"))
        /\ IF out.kind = "return"
           THEN /\ result' = out.result /\ error' = out.error
                /\ pc' = next /\ outcome' = outcome
           ELSE /\ pc' = "failed" /\ outcome' = out
                /\ UNCHANGED <<result, error>>

\* skip_first ignored: the poller always starts with a request.
Start_NeverSkip ==
    /\ pc = "idle"
    /\ start_time' = now
    /\ pc' = "first"
    /\ UNCHANGED <<now, config, util, elapsed, left_time, result, error, outcome, sent, fn, last, trace>>

\* The first request dropped: the poller always starts with waiting.
Start_AlwaysSkip ==
    /\ pc = "idle"
    /\ start_time' = now
    /\ pc' = "wait"
    /\ UNCHANGED <<now, config, util, elapsed, left_time, result, error, outcome, sent, fn, last, trace>>

\* Line 175-176: start_time = time.time(); if not skip_first ...
Start ==
    /\ pc = "idle"
    /\ start_time' = now
    /\ pc' = IF skip_first THEN "wait" ELSE "first"
    /\ UNCHANGED <<now, config, util, elapsed, left_time, result, error, outcome, sent, fn, last, trace>>

\* Line 177
FirstRequest ==
    /\ pc = "first"
    /\ \E tr \in PollResponses, lat \in 0..MaxLatency : Request(tr, lat, "first_check")
    /\ UNCHANGED <<config, util, start_time, elapsed, left_time>>

\* Lines 178-179
FirstCheckDone ==
    /\ pc = "first_check"
    /\ \E done \in BOOLEAN :
          /\ trace' = Append(trace, Event("check_done", now - start_time, 0, done))
          /\ IF done
             THEN pc' = "returned" /\ outcome' = Return(result, error)
             ELSE pc' = "wait" /\ outcome' = outcome
    /\ UNCHANGED <<now, config, util, start_time, elapsed, left_time, result, error, sent, fn, last>>

\* The timeout declared at the top of the loop, before the probe, once no
\* time is left.
Wait_TimeoutFirst ==
    /\ pc = "wait"
    /\ elapsed' = now - start_time
    /\ left_time' = check_done_timeout - elapsed'
    /\ IF left_time' <= 0
       THEN /\ pc' = "raised" /\ outcome' = CheckDoneTimeoutException(result, error)
            /\ UNCHANGED <<now, trace>>
       ELSE /\ now' = now + SleepTime(check_done_delay, left_time')
            /\ trace' = Append(trace, Event("sleep", now - start_time,
                                            SleepTime(check_done_delay, left_time'), TRUE))
            /\ pc' = "probe" /\ outcome' = outcome
    /\ UNCHANGED <<config, util, start_time, result, error, sent, fn, last>>

\* Lines 181-183
Wait ==
    /\ pc = "wait"
    /\ elapsed' = now - start_time
    /\ left_time' = check_done_timeout - elapsed'
    /\ now' = now + SleepTime(check_done_delay, left_time')
    /\ trace' = Append(trace, Event("sleep", now - start_time,
                                    SleepTime(check_done_delay, left_time'), TRUE))
    /\ pc' = "probe"
    /\ UNCHANGED <<config, util, start_time, result, error, outcome, sent, fn, last>>

\* Line 184
Probe ==
    /\ pc = "probe"
    /\ \E tr \in PollResponses, lat \in 0..MaxLatency : Request(tr, lat, "check")
    /\ UNCHANGED <<config, util, start_time, elapsed, left_time>>

\* Lines 185-188
CheckDone ==
    /\ pc = "check"
    /\ \E done \in BOOLEAN :
          /\ trace' = Append(trace, Event("check_done", now - start_time, 0, done))
          /\ IF done
             THEN pc' = "returned" /\ outcome' = Return(result, error)
             ELSE IF TimedOut(left_time, check_done_delay)
             THEN pc' = "raised" /\ outcome' = CheckDoneTimeoutException(result, error)
             ELSE pc' = "wait" /\ outcome' = outcome
    /\ UNCHANGED <<now, config, util, start_time, elapsed, left_time, result, error, sent, fn, last>>

\* A direct call of one executor on one transport response.
Call(name, tr, out) ==
    /\ pc = "idle"
    /\ sent' = tr /\ fn' = name /\ last' = out /\ outcome' = out
    /\ pc' = "called"
    /\ UNCHANGED <<now, config, util, start_time, elapsed, left_time, result, error, trace>>

CallFetchUrlJson ==
    \E tr \in Responses :
        Call("fetch_url_json", tr,
             fetch_url_json(url, tr, kwargs.accept_errors, kwargs.allow_empty_result,
                            kwargs.allowed_empty_result_status_codes))

CallPluginOpenUrlJson ==
    \E tr \in Responses :
        Call("plugin_open_url_json", tr,
             plugin_open_url_json(url, tr, kwargs.accept_errors, kwargs.allow_empty_result,
                                  kwargs.allowed_empty_result_status_codes))

\* A direct call of format_error_msg.
CallFormatErrorMsg ==
    /\ pc = "idle"
    /\ \E e \in ErrorObjects \cup {ErrNoCode, ErrNoMessage, PStr("boom")} :
          util' = [fn |-> "format_error_msg", arg |-> e, out |-> format_error_msg(e)]
    /\ pc' = "called"
    /\ UNCHANGED <<now, config, start_time, elapsed, left_time, result, error, outcome,
                   sent, fn, last, trace>>

\* A direct call of get_x_www_form_urlenconded_dict_from_list.
CallFormDict ==
    /\ pc = "idle"
    /\ \E key \in FormKeys, values \in ValueLists :
          util' = [fn |-> "get_x_www_form_urlenconded_dict_from_list",
                   arg |-> [key |-> key, values |-> values],
                   out |-> get_x_www_form_urlenconded_dict_from_list(key, values)]
    /\ pc' = "called"
    /\ UNCHANGED <<now, config, start_time, elapsed, left_time, result, error, outcome,
                   sent, fn, last, trace>>

Next ==
    \/ Start
    \/ FirstRequest
    \/ FirstCheckDone
    \/ Wait
    \/ Probe
    \/ CheckDone
    \/ CallFetchUrlJson
    \/ CallPluginOpenUrlJson
    \/ CallFormatErrorMsg
    \/ CallFormDict

Spec == Init /\ [][Next]_vars

\* The calls of the poller alone, with the executor arguments of two callers:
\* the defaults, and an accepted error code with empty results allowed.
PollInit ==
    /\ Init
    /\ kwargs \in {[accept_errors |-> {}, allow_empty_result |-> FALSE,
                     allowed_empty_result_status_codes |-> {200, 204}],
                    [accept_errors |-> {"RATE_LIMIT"}, allow_empty_result |-> TRUE,
                     allowed_empty_result_status_codes |-> {200, 204}]}

PollNext ==
    \/ Start
    \/ FirstRequest
    \/ FirstCheckDone
    \/ Wait
    \/ Probe
    \/ CheckDone

\* The poller is one sequential thread: a statement that can run does run
\* (every request ends, every sleep ends).
FairPollSpec == PollInit /\ [][PollNext]_vars /\ WF_vars(PollNext)

---------------------------------------------------------------------------
(* Reading the trace *)

IsRequest(e) == e.ev = "request"
IsSleep(e) == e.ev = "sleep"
IsCheckDone(e) == e.ev = "check_done"

Requests == SelectSeq(trace, IsRequest)
Sleeps == SelectSeq(trace, IsSleep)
CheckDones == SelectSeq(trace, IsCheckDone)

\* The times, in seconds since start_time, at which the requests were started.
RequestTimes == [i \in 1..Len(Requests) |-> Requests[i].at]

IsPrefix(a, b) == Len(a) <= Len(b) /\ \A i \in 1..Len(a) : a[i] = b[i]

\* Seconds since start_time.
Elapsed == now - start_time

\* The documented scenario: delay 10, timeout 25, skip_first false, requests
\* that take no time and all return, check_done false every time so far.
Scenario ==
    /\ check_done_delay = 10 /\ check_done_timeout = 25 /\ ~skip_first
    /\ \A i \in 1..Len(Requests) : Requests[i].dur = 0 /\ Requests[i].ok
    /\ \A i \in 1..Len(CheckDones) : ~CheckDones[i].ok

---------------------------------------------------------------------------
(* C1 *)

\* C1 as stated: in the scenario exactly 3 requests are made, at t = 0, 10, 20,
\* then the timeout is raised, and there is never a 4th request.
C1_AsStated ==
    Scenario =>
        /\ IsPrefix(RequestTimes, <<0, 10, 20>>)
        /\ pc = "raised" => RequestTimes = <<0, 10, 20>>

\* C1, amended: in the scenario exactly 4 requests are made, at t = 0, 10, 20
\* and 25 (the last one after a sleep clamped to the 5 seconds left); once the
\* 4th check_done has returned false the timeout is raised, and there is never
\* a 5th request.
C1_FourRequestsThenTimeout ==
    Scenario =>
        /\ IsPrefix(RequestTimes, <<0, 10, 20, 25>>)
        /\ pc = "raised" <=> Len(CheckDones) = 4
        /\ pc = "raised" => RequestTimes = <<0, 10, 20, 25>> /\ Elapsed = 25

C1_Witness ==
    Scenario /\ pc = "raised" /\ Len(Requests) = 4

---------------------------------------------------------------------------
(* C2 *)

\* The call returned on the first check_done it made.
DoneOnFirstProbe == pc = "returned" /\ Len(CheckDones) = 1

\* C2 as stated: with skip_first, when check_done is true on the first probe,
\* exactly one request is made and no sleep comes before it.
C2_AsStated ==
    (skip_first /\ DoneOnFirstProbe) =>
        /\ Len(Requests) = 1
        /\ \A i \in 1..Len(trace) : IsSleep(trace[i]) => trace[i].dur = 0

\* C2, amended: with skip_first, when check_done is true on the first probe,
\* exactly one request is made, and exactly one sleep comes before it, of
\* max(min(check_done_delay, check_done_timeout), 0) seconds.
C2_OneRequestAfterOneSleep ==
    (skip_first /\ DoneOnFirstProbe) =>
        /\ Len(trace) = 3
        /\ IsSleep(trace[1]) /\ IsRequest(trace[2]) /\ IsCheckDone(trace[3])
        /\ trace[1].at = 0
        /\ trace[1].dur = IF check_done_timeout <= 0 THEN 0
                          ELSE IF check_done_timeout < check_done_delay THEN check_done_timeout
                          ELSE check_done_delay
        /\ trace[2].at = trace[1].dur

C2_Witness ==
    skip_first /\ DoneOnFirstProbe /\ trace[1].dur > 0 /\ trace[1].dur < check_done_delay

---------------------------------------------------------------------------
(* C3 *)

RECURSIVE MaxDur(_)
MaxDur(q) == IF Len(q) = 0 THEN 0 ELSE Max(Head(q).dur, MaxDur(Tail(q)))

\* The latencies of the last two requests, added up.
LastTwoLatencies ==
    LET n == Len(Requests)
    IN  (IF n >= 1 THEN Requests[n].dur ELSE 0) + (IF n >= 2 THEN Requests[n - 1].dur ELSE 0)

\* C3 as stated: when the timeout is raised, the time elapsed since start_time
\* exceeds check_done_timeout by at most the latency of one request (here:
\* the slowest request of the call; shown on the calls with a timeout >= 0).
C3_AsStated ==
    (pc = "raised" /\ check_done_timeout >= 0) =>
        Elapsed - check_done_timeout <= MaxDur(Requests)

\* C3, amended: for check_done_timeout >= 0, when the timeout is raised the
\* time elapsed since start_time exceeds check_done_timeout by at most the
\* latencies of the last two requests added up.
C3_OvershootWithinTwoRequests ==
    (pc = "raised" /\ check_done_timeout >= 0) =>
        Elapsed - check_done_timeout <= LastTwoLatencies

C3_Witness ==
    /\ pc = "raised" /\ check_done_timeout >= 0
    /\ Elapsed - check_done_timeout = LastTwoLatencies
    /\ Elapsed - check_done_timeout > MaxDur(Requests)

---------------------------------------------------------------------------
(* C4 *)

\* C4: a request that fails inside fetch_url_json ends the poller at once with
\* that failure: nothing follows it in the trace (no request, no sleep, no
\* check_done).  Every request that is followed by anything returned and is
\* followed by its check_done, and every request after the first attempt comes
\* after a sleep that follows a check_done that said false.
C4_FailurePropagates ==
    /\ \A i \in 1..Len(trace) :
          IsRequest(trace[i]) =>
             /\ ~trace[i].ok => i = Len(trace) /\ pc = "failed" /\ outcome = last
                                /\ last.kind \in {"fail", "raise"}
             /\ i < Len(trace) => trace[i].ok /\ IsCheckDone(trace[i + 1])
             /\ i > 2 => /\ IsSleep(trace[i - 1])
                         /\ IsCheckDone(trace[i - 2]) /\ ~trace[i - 2].ok
                         /\ IsRequest(trace[i - 3]) /\ trace[i - 3].ok
    /\ pc = "failed" => Len(trace) > 0 /\ IsRequest(trace[Len(trace)]) /\ ~trace[Len(trace)].ok
    /\ Len(CheckDones) = Len(SelectSeq(Requests, LAMBDA e : e.ok)) - (IF pc \in {"first_check", "check"} THEN 1 ELSE 0)

C4_Witness ==
    pc = "failed" /\ Len(Requests) >= 3 /\ last.kind = "fail"

---------------------------------------------------------------------------
(* C5 *)

\* C5: the pair carried by CheckDoneTimeoutException is the outcome of the
\* latest request of the call, on which check_done said false; the pair
\* returned is the outcome of the latest request, on which check_done said true.
C5_CarriesLatestOutcome ==
    /\ pc = "raised" =>
          /\ outcome.kind = "timeout" /\ last.kind = "return"
          /\ outcome.result = last.result /\ outcome.error = last.error
          /\ IsCheckDone(trace[Len(trace)]) /\ ~trace[Len(trace)].ok
          /\ IsRequest(trace[Len(trace) - 1])
    /\ pc = "returned" =>
          /\ outcome.kind = "return" /\ last.kind = "return"
          /\ outcome.result = last.result /\ outcome.error = last.error
          /\ IsCheckDone(trace[Len(trace)]) /\ trace[Len(trace)].ok
          /\ IsRequest(trace[Len(trace) - 1])

C5_Witness ==
    pc = "raised" /\ Len(Requests) >= 3 /\ outcome.error = PStr("RATE_LIMIT")

---------------------------------------------------------------------------
(* C6 *)

\* C6: without skip_first the first thing the poller does is a request, and
\* when check_done is true on its outcome the call returns that outcome with
\* exactly one request made and no sleep, having taken only the request's time.
C6_FirstRequestBeforeAnySleep ==
    ~skip_first =>
        /\ Len(trace) >= 1 => IsRequest(trace[1]) /\ trace[1].at = 0
        /\ (Len(trace) >= 2 /\ IsCheckDone(trace[2]) /\ trace[2].ok) =>
              /\ pc = "returned" /\ Len(trace) = 2
              /\ outcome.kind = "return"
              /\ outcome.result = last.result /\ outcome.error = last.error
              /\ Elapsed = trace[1].dur

C6_Witness ==
    ~skip_first /\ pc = "returned" /\ Len(Requests) = 1 /\ Len(Sleeps) = 0

---------------------------------------------------------------------------
(* Reading the latest executor call *)

Called == fn # ""

\* The body the response carries: an HTTPError whose body cannot be read
\* carries none.
BodyOf(tr) == IF tr.how = "normal" \/ (tr.how = "httperror" /\ tr.readable) THEN tr.body ELSE ""

HasResponse(tr) == tr.how \in {"normal", "httperror"}

EmptyResponseMsg(u, status) ==
    <<"Cannot retrieve content from ", u, ", HTTP status code ">> \o IntText(status)

\* The executor named name, applied to the call's arguments and response tr.
Executor(name, tr) ==
    IF name = "fetch_url_json"
    THEN fetch_url_json(url, tr, kwargs.accept_errors, kwargs.allow_empty_result,
                        kwargs.allowed_empty_result_status_codes)
    ELSE plugin_open_url_json(url, tr, kwargs.accept_errors, kwargs.allow_empty_result,
                              kwargs.allowed_empty_result_status_codes)

---------------------------------------------------------------------------
(* C7 *)

\* C7: on a response with an empty body either executor returns (None, None)
\* exactly when allow_empty_result is true and the status is one of
\* allowed_empty_result_status_codes; otherwise it fails with 'Cannot retrieve
\* content from <url>, HTTP status code <status>' and returns nothing.
C7_EmptyBody ==
    (Called /\ HasResponse(sent) /\ BodyOf(sent) = "") =>
        IF kwargs.allow_empty_result /\ sent.status \in kwargs.allowed_empty_result_status_codes
        THEN last.kind = "return" /\ last.result = None /\ last.error = None
        ELSE /\ last.kind = "fail"
             /\ last.msg = EmptyResponseMsg(url, sent.status)
             /\ last.result = None /\ last.error = None

C7_Witness ==
    /\ Called /\ HasResponse(sent) /\ BodyOf(sent) = ""
    /\ kwargs.allow_empty_result /\ sent.status \notin kwargs.allowed_empty_result_status_codes
    /\ last.kind = "fail" /\ fn = "plugin_open_url_json"

---------------------------------------------------------------------------
(* C8 *)

\* The decoded body has an 'error' field that is an object with a 'code'.
HasErrorCode(val) ==
    /\ val.t = "dict" /\ "error" \in DOMAIN val.v
    /\ val.v["error"].t = "dict" /\ "code" \in DOMAIN val.v["error"].v

\* The error object has the mandatory fields of an API error.
WellFormedError(err) ==
    err.t = "dict" /\ {"status", "code", "message"} \subseteq DOMAIN err.v

\* C8: when an executor returns (result, error_code): error_code is not None
\* only if the decoded body has an 'error' whose code is in accept_errors, and
\* then result is the whole decoded body and error_code is
\* result['error']['code']; when error_code is None and result is not None,
\* result has no 'error' field.  A decoded body with an 'error' whose code is
\* not in accept_errors never returns; for an error object with status, code
\* and message it fails with the message of format_error_msg.
C8_AcceptedErrorsOnly ==
    Called =>
        LET dec == json_loads(BodyOf(sent))
        IN  /\ (last.kind = "return" /\ last.error # None) =>
                  /\ dec.ok /\ HasErrorCode(dec.val)
                  /\ dec.val.v["error"].v["code"].t = "str"
                  /\ dec.val.v["error"].v["code"].v \in kwargs.accept_errors
                  /\ last.result = dec.val
                  /\ last.error = last.result.v["error"].v["code"]
            /\ (last.kind = "return" /\ last.error = None /\ last.result # None) =>
                  /\ last.result = dec.val
                  /\ ~(last.result.t = "dict" /\ "error" \in DOMAIN last.result.v)
            /\ (HasResponse(sent) /\ dec.ok /\ HasErrorCode(dec.val)
                /\ ~CodeAccepted(dec.val.v["error"].v["code"], kwargs.accept_errors)) =>
                  /\ last.kind # "return"
                  /\ WellFormedError(dec.val.v["error"]) =>
                        /\ last.kind = "fail"
                        /\ last.msg = format_error_msg(dec.val.v["error"]).msg
                        /\ last.msg[1] = "Request failed: "

C8_Witness ==
    /\ Called /\ last.kind = "return" /\ last.error = PStr("NOT_FOUND")
    /\ kwargs.accept_errors = {"RATE_LIMIT", "NOT_FOUND"}

---------------------------------------------------------------------------
(* C9 *)

TransportFailureMsg(u, cause) ==
    <<"Failed request to Hetzner Robot server endpoint ", u, ": ", cause>>

\* C9 as stated: a transport failure that carries no HTTP response makes either
\* executor fail with the transport failure, carrying the cause and the URL;
\* it is never reported as an empty response and never returns a value.
C9_AsStated ==
    (Called /\ sent.how = "hard") =>
        /\ last.kind = "fail"
        /\ last.msg = TransportFailureMsg(url, sent.cause)

\* The part of C9 that the inventory-plugin executor keeps.
C9_PluginOnly ==
    (Called /\ sent.how = "hard" /\ fn = "plugin_open_url_json") =>
        /\ last.kind = "fail"
        /\ last.msg = TransportFailureMsg(url, sent.cause)

---------------------------------------------------------------------------
(* C10 *)

\* C10: a response surfaced as an HTTPError with a status and a body gets the
\* outcome the same status and body get when the transport returns them
\* normally, whatever accept_errors, allow_empty_result and
\* allowed_empty_result_status_codes are; an HTTPError whose body cannot be
\* read gets the outcome of the empty body.
C10_ErrorResponseAsNormal ==
    (Called /\ sent.how = "httperror") =>
        last = Executor(fn, Normal(sent.status, IF sent.readable THEN sent.body ELSE ""))

C10_Witness ==
    /\ Called /\ sent.how = "httperror" /\ sent.readable
    /\ sent.body = "{\"error\": NOT_FOUND}" /\ last.kind = "return"
    /\ fn = "plugin_open_url_json"

---------------------------------------------------------------------------
(* Reading the latest call of format_error_msg *)

Formatting == util.fn = "format_error_msg" /\ util.out.ok

Has(msg, piece) == \E i \in 1..Len(msg) : msg[i] = piece

\* Where piece first stands in msg; 0 when it is not there.
Pos(msg, piece) ==
    IF Has(msg, piece) THEN CHOOSE i \in 1..Len(msg) : msg[i] = piece /\ \A j \in 1..(i - 1) : msg[j] # piece
    ELSE 0

MissingClause == ". Missing input parameters: "
InvalidClause == ". Invalid input parameters: "
MaxRequestClause == ". Maximum allowed requests: "
IntervalClause == ". Time interval in seconds: "

\* 'Request failed: {status} {code} ({message})' for the error objects called with.
Prefix == <<"Request failed: ", "4", "0", "3", " ", "RATE_LIMIT", " (", "rate limit", ")">>

StartsWithPrefix(msg) == Len(msg) >= Len(Prefix) /\ SubSeq(msg, 1, Len(Prefix)) = Prefix

\* The clauses that are there stand after the prefix in the order missing,
\* invalid, max_request, interval.
ClausesInOrder(msg) ==
    LET marks == <<MissingClause, InvalidClause, MaxRequestClause, IntervalClause>>
    IN  /\ \A a \in 1..4 : Has(msg, marks[a]) => Pos(msg, marks[a]) > Len(Prefix)
        /\ \A a, b \in 1..4 :
              (a < b /\ Has(msg, marks[a]) /\ Has(msg, marks[b])) =>
                 Pos(msg, marks[a]) < Pos(msg, marks[b])

FieldSet(name) == name \in DOMAIN util.arg.v

\* The field is there and is not null.
PresentField(name) == FieldSet(name) /\ util.arg.v[name].t # "none"

NonEmptyList(name) ==
    FieldSet(name) /\ util.arg.v[name].t = "list" /\ Len(util.arg.v[name].v) > 0

---------------------------------------------------------------------------
(* C11 *)

\* C11 as stated: the message has the 'Missing input parameters' clause exactly
\* when the missing field is present, and the 'Invalid input parameters' clause
\* exactly when the invalid field is present (an empty list included), in the
\* order missing, invalid, max_request, interval after the prefix.
C11_AsStated ==
    Formatting =>
        /\ StartsWithPrefix(util.out.msg) /\ ClausesInOrder(util.out.msg)
        /\ Has(util.out.msg, MissingClause) <=> PresentField("missing")
        /\ Has(util.out.msg, InvalidClause) <=> PresentField("invalid")

\* C11, amended: the message has the 'Missing input parameters' clause exactly
\* when the missing field is present and not empty (a non-empty list), and the
\* 'Invalid input parameters' clause exactly when the invalid field is present
\* and not empty; a field that is present with an empty list or with null adds
\* no clause.  The clauses stand in the order missing, invalid, max_request,
\* interval after the prefix.
C11_ListClausesWhenNonEmpty ==
    Formatting =>
        /\ StartsWithPrefix(util.out.msg) /\ ClausesInOrder(util.out.msg)
        /\ Has(util.out.msg, MissingClause) <=> NonEmptyList("missing")
        /\ Has(util.out.msg, InvalidClause) <=> NonEmptyList("invalid")

C11_Witness ==
    /\ Formatting
    /\ FieldSet("invalid") /\ util.arg.v["invalid"] = PList(<<>>)
    /\ NonEmptyList("missing")
    /\ Has(util.out.msg, MissingClause) /\ ~Has(util.out.msg, InvalidClause)
    /\ Has(util.out.msg, IntervalClause)

---------------------------------------------------------------------------
(* C12 *)

IsNumber(name) == FieldSet(name) /\ util.arg.v[name].t = "int"

\* The pieces of msg after the clause mark, up to the next clause or the end.
ClauseValue(msg, mark, n) == SubSeq(msg, Pos(msg, mark) + 1, Pos(msg, mark) + n)

\* C12: the message has '. Maximum allowed requests: {max_request}' whenever
\* max_request is set and '. Time interval in seconds: {interval}' whenever
\* interval is set, the value 0 included; an error object with only status,
\* code and message gives the prefix and no clause.
C12_NumberClausesWhenSet ==
    Formatting =>
        /\ Has(util.out.msg, MaxRequestClause) <=> IsNumber("max_request")
        /\ Has(util.out.msg, IntervalClause) <=> IsNumber("interval")
        /\ (IsNumber("max_request") /\ util.arg.v["max_request"].v = 0) =>
              ClauseValue(util.out.msg, MaxRequestClause, 1) = <<"0">>
        /\ (IsNumber("interval") /\ util.arg.v["interval"].v = 0) =>
              ClauseValue(util.out.msg, IntervalClause, 1) = <<"0">>
        /\ (IsNumber("interval") /\ util.arg.v["interval"].v = 60) =>
              ClauseValue(util.out.msg, IntervalClause, 2) = <<"6", "0">>
        /\ DOMAIN util.arg.v = {"status", "code", "message"} => util.out.msg = Prefix

C12_Witness ==
    /\ Formatting
    /\ IsNumber("max_request") /\ util.arg.v["max_request"].v = 0
    /\ IsNumber("interval") /\ util.arg.v["interval"].v = 0
    /\ Has(util.out.msg, MaxRequestClause) /\ Has(util.out.msg, IntervalClause)

---------------------------------------------------------------------------
(* C13 *)

FormCall == util.fn = "get_x_www_form_urlenconded_dict_from_list"

\* C13: for a list of one value the mapping has the single entry 'key[]' ->
\* values[0]; for a list of n >= 2 values it has exactly the n entries
\* 'key[i]' -> values[i], i = 0..n-1, in the order of the values; for the empty
\* list it is empty.
C13_FormDict ==
    FormCall =>
        LET key == util.arg.key
            values == util.arg.values
            n == Len(values)
            out == util.out
        IN  /\ n = 0 => out = <<>>
            /\ n = 1 => out = << << <<key, "[]">>, values[1] >> >>
            /\ n >= 2 =>
                  /\ Len(out) = n
                  /\ \A i \in 1..n :
                        /\ out[i][1] = <<key, "[", Digit(i - 1), "]">>
                        /\ out[i][2] = values[i]
                  /\ \A i, j \in 1..n : i # j => out[i][1] # out[j][1]

C13_Witness ==
    /\ FormCall /\ Len(util.arg.values) = 3 /\ Len(util.out) = 3
    /\ util.arg.values[1] # util.arg.values[2]
    /\ util.out[3][1] = <<"server_ip", "[", "2", "]">>

---------------------------------------------------------------------------
(* C14 *)

\* The trace ends with an iteration of the loop whose check_done said false:
\* sleep, request, check_done.
LoopProbeFailed ==
    LET n == Len(trace)
    IN  /\ n >= 3
        /\ IsCheckDone(trace[n]) /\ ~trace[n].ok
        /\ IsRequest(trace[n - 1]) /\ IsSleep(trace[n - 2])

\* C14: after a probe of the loop on which check_done said false, the timeout
\* is raised exactly when left_time, the timeout minus the time elapsed when
\* the iteration began (before its sleep, not computed again after the sleep
\* or the probe), is below check_done_delay; otherwise the loop goes back to
\* waiting.  So a sleep shorter than check_done_delay comes only before the
\* last probe of the call.
C14_TimeoutTest ==
    /\ pc \in {"probe", "check"} =>
          left_time = check_done_timeout - Sleeps[Len(Sleeps)].at
    /\ LoopProbeFailed =>
          /\ left_time = check_done_timeout - trace[Len(trace) - 2].at
          /\ pc \in {"raised", "wait"}
          /\ pc = "raised" <=> check_done_timeout - trace[Len(trace) - 2].at < check_done_delay
    /\ \A i \in 1..Len(trace) :
          (IsSleep(trace[i]) /\ trace[i].dur < check_done_delay) =>
             \A j \in (i + 1)..Len(trace) : IsSleep(trace[j]) \/ IsRequest(trace[j]) => j = i + 1

C14_Witness ==
    /\ pc = "raised" /\ Len(Sleeps) >= 2
    /\ Sleeps[Len(Sleeps)].dur > 0 /\ Sleeps[Len(Sleeps)].dur < check_done_delay
    /\ Elapsed > check_done_timeout

---------------------------------------------------------------------------
(* C15 *)

\* C15: the timeout is raised only at the end of an iteration of the loop that
\* made a probe on which check_done said false.  When no time is left at the
\* start of an iteration (a timeout <= 0 included) the sleep has length 0 and
\* the request of that iteration is still made, at once, before any timeout.
C15_ProbeBeforeTimeout ==
    /\ pc = "raised" => LoopProbeFailed /\ trace[Len(trace) - 1].ok
    /\ \A i \in 1..Len(trace) :
          (IsSleep(trace[i]) /\ check_done_timeout - trace[i].at <= 0) =>
             /\ trace[i].dur = 0
             /\ i = Len(trace) => pc = "probe"
             /\ i < Len(trace) => IsRequest(trace[i + 1]) /\ trace[i + 1].at = trace[i].at

C15_Witness ==
    /\ pc = "raised" /\ check_done_timeout <= 0 /\ skip_first
    /\ Len(Requests) = 1 /\ Sleeps[1].dur = 0

---------------------------------------------------------------------------
(* C16 *)

\* C16: every sleep lasts max(min(check_done_delay, left_time), 0) seconds,
\* left_time being the timeout minus the time elapsed when the sleep begins: it
\* is never negative, never longer than check_done_delay, and a sleep of
\* non-zero length never ends after start_time + check_done_timeout.
C16_SleepClamped ==
    \A i \in 1..Len(trace) :
        IsSleep(trace[i]) =>
            LET left == check_done_timeout - trace[i].at
            IN  /\ trace[i].dur = IF left <= 0 THEN 0
                                  ELSE IF left < check_done_delay THEN left
                                  ELSE check_done_delay
                /\ trace[i].dur >= 0
                /\ trace[i].dur <= check_done_delay
                /\ trace[i].dur > 0 => trace[i].at + trace[i].dur <= check_done_timeout

C16_Witness ==
    \E i \in 1..Len(trace) :
        /\ IsSleep(trace[i]) /\ i > 1
        /\ trace[i].dur > 0 /\ trace[i].dur < check_done_delay
        /\ trace[i].at + trace[i].dur = check_done_timeout

---------------------------------------------------------------------------
(* C17 *)

Running == pc \in {"first", "first_check", "wait", "probe", "check"}
Finished == pc \in {"returned", "raised", "failed"}

\* The requests one call can make: the first one, one for each whole delay
\* that fits into the timeout, and the last one.
RequestsBounded ==
    Len(Requests) <= Max(check_done_timeout, 0) \div check_done_delay + 2

\* C17: a call of the poller (delay > 0, finite timeout, requests and sleeps
\* that end) ends: it returns an outcome check_done accepted, raises the
\* timeout or passes on a request's failure; and whatever check_done says, the
\* number of requests stays within a bound given by timeout and delay.
C17_Terminates ==
    /\ []RequestsBounded
    /\ [](check_done_delay > 0)
    /\ Running ~> Finished
    /\ [](pc = "returned" => outcome.kind = "return" /\ CheckDones[Len(CheckDones)].ok)
    /\ [](pc = "raised" => outcome.kind = "timeout")
    /\ [](pc = "failed" => outcome.kind \in {"fail", "raise"})

C17_Witness ==
    /\ pc = "raised"
    /\ Len(Requests) = Max(check_done_timeout, 0) \div check_done_delay + 2
    /\ Len(Requests) >= 4

---------------------------------------------------------------------------
(* C18 *)

NonEmptyBody == Called /\ HasResponse(sent) /\ BodyOf(sent) # ""

MalformedResponseMsg(u) == <<"Cannot decode content retrieved from ", u>>

\* C18 as stated: on a response with a non-empty body an executor ends in a
\* normal return, in 'Cannot decode content retrieved from <url>' or in the
\* failure with the message of format_error_msg, and in nothing else; also for
\* a body that is JSON but no object, and for an error object without code,
\* status or message.
C18_AsStated ==
    NonEmptyBody =>
        \/ last.kind = "return"
        \/ last.kind = "fail" /\ last.msg = MalformedResponseMsg(url)
        \/ last.kind = "fail" /\ last.msg[1] = "Request failed: "

---------------------------------------------------------------------------
(* C19 *)

Other(name) == IF name = "fetch_url_json" THEN "plugin_open_url_json" ELSE "fetch_url_json"

\* The response is an API error the call does not accept: an error object with
\* status, code and message whose code is not in accept_errors.
UnacceptedApiError ==
    LET dec == json_loads(BodyOf(sent))
    IN  /\ NonEmptyBody /\ dec.ok /\ HasErrorCode(dec.val)
        /\ WellFormedError(dec.val.v["error"])
        /\ ~CodeAccepted(dec.val.v["error"].v["code"], kwargs.accept_errors)

\* C19 as stated: on a response with a status and a body the two executors
\* return the same pair or fail with the same message, and on an API error that
\* is not accepted both failures carry the decoded error object.
C19_AsStated ==
    (Called /\ HasResponse(sent)) =>
        LET other == Executor(Other(fn), sent)
        IN  /\ other.kind = last.kind /\ other.msg = last.msg
            /\ other.result = last.result /\ other.error = last.error
            /\ UnacceptedApiError =>
                  /\ last.payload = json_loads(BodyOf(sent)).val.v["error"]
                  /\ other.payload = last.payload

\* C19, amended: on a response with a status and a body the two executors
\* return the same pair or fail with the same message; on an API error that is
\* not accepted the failure of fetch_url_json carries the decoded error object
\* (fail_json's error=...), the PluginException of plugin_open_url_json carries
\* the message alone.
C19_SameOutcomePayloadInModuleOnly ==
    (Called /\ HasResponse(sent)) =>
        LET other == Executor(Other(fn), sent)
            f == IF fn = "fetch_url_json" THEN last ELSE other
            p == IF fn = "fetch_url_json" THEN other ELSE last
        IN  /\ other.kind = last.kind /\ other.msg = last.msg
            /\ other.result = last.result /\ other.error = last.error
            /\ UnacceptedApiError =>
                  /\ f.kind = "fail" /\ p.kind = "fail"
                  /\ f.payload = json_loads(BodyOf(sent)).val.v["error"]
                  /\ p.payload = None

C19_Witness ==
    /\ Called /\ fn = "plugin_open_url_json" /\ UnacceptedApiError
    /\ sent.body = "{\"error\": INVALID_INPUT}"
    /\ last.kind = "fail" /\ last.payload = None
    /\ Executor("fetch_url_json", sent).payload = ErrInvalidInput

---------------------------------------------------------------------------
(* C20 *)

\* C20: on a response with a non-empty body the outcome of an executor is the
\* same for every status code: the same body under status 200 and under 500
\* gives the same return pair or the same failure.
C20_StatusIgnoredWithBody ==
    NonEmptyBody =>
        \A st \in Statuses : Executor(fn, [sent EXCEPT !.status = st]) = last

C20_Witness ==
    /\ NonEmptyBody /\ sent.status = 500 /\ sent.how = "normal"
    /\ last.kind = "return" /\ last.result = PDict([server |-> PInt(1)])
    /\ fn = "plugin_open_url_json"

=============================================================================
